---- MODULE Spec2Model ----
(***************************************************************************)
(* Model of static/pychess.js: the Position session (update, setMoves,     *)
(* addMove, deleteMove), the page's event handlers, and the annotation     *)
(* store reached through fetch().                                          *)
(*                                                                         *)
(* Strings that the code processes character by character (comments and   *)
(* rendered markup) are sequences of pieces: a piece is one character, or  *)
(* a run of plain text that holds no markup character.  A catalog (a       *)
(* JavaScript object used as an insertion-ordered map) is a sequence of    *)
(* entries with unique keys.  A JavaScript value that may be undefined is  *)
(* a record [defined, entries]; Position.id uses 0 for undefined.          *)
(***************************************************************************)
EXTENDS Integers, Sequences, FiniteSets, TLC

VARIABLES
  game,         \* the oracle's move history (new Chess()), a sequence of SAN strings
  board,        \* the position string last pushed to the board widget
  id,           \* Position.id, 0 while undefined
  moves,        \* Position.moves, [defined, entries]
  display,      \* innerHTML of #moves, as the sequence of rendered rows
  snapPending,  \* a legal drop has happened and the widget has not fired onSnapEnd yet
  store,        \* the store's records, a sequence of [fen, moves]; the id is the index
  issued,       \* the number of requests issued so far (history)
  net,          \* the round trips still outstanding, numbered in issue order
  lastReturned, \* per record id, the catalog of the last response the store returned (history)
  failed,       \* the number of round trips that have failed (history)
  ev            \* what the last step did (history)

vars == <<game, board, id, moves, display, snapPending, store, issued, net,
          lastReturned, failed, ev>>

----------------------------------------------------------------------------
(* Bounds of the model *)

\* total number of requests the session issues
MaxReq == 3
\* longest move history the oracle is driven to
MaxPly == 1
\* number of round trips that fail
MaxFail == 1
\* longest comment drawn for the rendering specification
MaxLen == 3

----------------------------------------------------------------------------
(* JavaScript values *)

Undefined == [defined |-> FALSE, entries |-> <<>>]
Obj(c) == [defined |-> TRUE, entries |-> c]

\* mutant: the rate is tested for truth, so a rate of 0 is dropped
EntryTruthyRate(move, hasRate, rate, comment) ==
  [key |-> move,
   hasRate |-> hasRate /\ rate # 0, rate |-> IF hasRate THEN rate ELSE 0,
   hasComment |-> comment # <<>>, comment |-> comment]

\* one catalog entry  move: {rate?, comment?}
Entry(move, hasRate, rate, comment) ==
  [key |-> move,
   hasRate |-> hasRate, rate |-> IF hasRate THEN rate ELSE 0,
   hasComment |-> comment # <<>>, comment |-> comment]

\* Object.keys(moves)
Keys(cat) == {cat[i].key : i \in DOMAIN cat}

\* `move in moves`
HasKey(cat, move) == move \in Keys(cat)

IndexOf(cat, move) == CHOOSE i \in DOMAIN cat : cat[i].key = move

\* moves[move]
Lookup(cat, move) == cat[IndexOf(cat, move)]

----------------------------------------------------------------------------
(* Text: escapeHtml and the comment block of setMoves *)

\* s.replaceAll(ch, by) for a one-character pattern
RECURSIVE replaceAll(_, _, _)
replaceAll(s, ch, by) ==
  IF s = <<>> THEN <<>>
  ELSE (IF Head(s) = ch THEN by ELSE <<Head(s)>>) \o replaceAll(Tail(s), ch, by)

Amp == <<"&", "a", "m", "p", ";">>
Lt == <<"&", "l", "t", ";">>
Gt == <<"&", "g", "t", ";">>
Quot == <<"&", "q", "u", "o", "t", ";">>
Apos == <<"&", "#", "0", "3", "9", ";">>
Br == <<"<", "b", "r", ">">>

\* mutant: the ampersand is escaped last instead of first
escapeHtmlAmpLast(unsafe) ==
  replaceAll(replaceAll(replaceAll(replaceAll(replaceAll(unsafe,
    "<", Lt), ">", Gt), "\"", Quot), "'", Apos), "&", Amp)

escapeHtml(unsafe) ==
  replaceAll(replaceAll(replaceAll(replaceAll(replaceAll(unsafe,
    "&", Amp), "<", Lt), ">", Gt), "\"", Quot), "'", Apos)

\* s.split('\n'): the lines of s, always at least one
RECURSIVE split(_)
split(s) ==
  IF \A i \in DOMAIN s : s[i] # "\n" THEN <<s>>
  ELSE LET k == CHOOSE i \in DOMAIN s :
                  s[i] = "\n" /\ \A j \in 1..(i - 1) : s[j] # "\n"
       IN <<SubSeq(s, 1, k - 1)>> \o split(SubSeq(s, k + 1, Len(s)))

\* lines.join('<br>')
RECURSIVE join(_)
join(lines) ==
  IF Len(lines) = 1 THEN lines[1]
  ELSE lines[1] \o Br \o join(Tail(lines))

mapEscape(lines) == [i \in DOMAIN lines |-> escapeHtml(lines[i])]

\* (v.comment || '').split('\n').map(escapeHtml).join('<br>')
commentBlock(v) == join(mapEscape(split(IF v.hasComment THEN v.comment ELSE <<>>)))

\* mutant: the threshold of best-move is off by one
moveClassBySize(v) ==
  IF v.hasRate
  THEN IF v.rate > 1 THEN "best-move"
       ELSE IF v.rate < 0 THEN "mistake-move"
       ELSE "playable-move"
  ELSE "unrated-move"

moveClass(v) ==
  IF v.hasRate
  THEN IF v.rate > 0 THEN "best-move"
       ELSE IF v.rate < 0 THEN "mistake-move"
       ELSE "playable-move"
  ELSE "unrated-move"

\* mutant: the new rows are added to the list on display (innerHTML += list)
renderListAdded(cat) ==
  display \o
  [i \in DOMAIN cat |->
     [label |-> cat[i].key, class |-> moveClass(cat[i]), comment |-> commentBlock(cat[i])]]

\* the rows of the <dl> that setMoves builds
renderList(cat) ==
  [i \in DOMAIN cat |->
     [label |-> cat[i].key, class |-> moveClass(cat[i]), comment |-> commentBlock(cat[i])]]

----------------------------------------------------------------------------
(* The in-memory catalog *)

\* mutant: the entry is always appended, also when the key exists
setEntryAppend(cat, e) == Append(cat, e)

\* mutant: only the entry that was set is kept (a delta)
setEntryDelta(cat, e) == <<e>>

\* moves[move] = {...}: an existing key keeps its place, a new key goes last
setEntry(cat, e) ==
  IF HasKey(cat, e.key)
  THEN [cat EXCEPT ![IndexOf(cat, e.key)] = e]
  ELSE Append(cat, e)

\* mutant: an absent key removes the last entry (splice at index -1)
deleteKeyLast(cat, move) ==
  IF HasKey(cat, move)
  THEN SelectSeq(cat, LAMBDA e : e.key # move)
  ELSE SubSeq(cat, 1, Len(cat) - 1)

\* delete moves[move]
deleteKey(cat, move) == SelectSeq(cat, LAMBDA e : e.key # move)

----------------------------------------------------------------------------
(* The legality oracle (Chess) and the requests *)

WhiteMoves == {"e4"}
BlackMoves == {"e5"}

\* the moves game.move() accepts after history h
Legal(h) == IF Len(h) % 2 = 0 THEN WhiteMoves ELSE BlackMoves

\* game.fen(): the history stands for the position string it leads to
fen(h) == h

\* game.undo()
undo(h) == IF h = <<>> THEN h ELSE SubSeq(h, 1, Len(h) - 1)

NoData == [id |-> 0, moves |-> Undefined]

\* fetch(`/api/position/fen/${fen}`)
fetchReq(f) == [kind |-> "fetch", fen |-> f, id |-> 0, body |-> <<>>]

\* fetch(`/api/position/save/${this.id}`, {method: 'POST', body: payload})
saveReq(i, payload) == [kind |-> "save", fen |-> <<>>, id |-> i, body |-> payload]

\* mutant: the edit is kept in memory and no save is sent
addMoveNoSave(m, i, move, hasRate, rate, comment) ==
  IF ~m.defined
  THEN [threw |-> TRUE, moves |-> m, reqs |-> <<>>]
  ELSE [threw |-> FALSE,
        moves |-> Obj(setEntry(m.entries, Entry(move, hasRate, rate, comment))),
        reqs |-> <<>>]

\* Position.addMove: a TypeError while this.moves is undefined, else the
\* local mutation and one save carrying the whole catalog
addMove(m, i, move, hasRate, rate, comment) ==
  IF ~m.defined
  THEN [threw |-> TRUE, moves |-> m, reqs |-> <<>>]
  ELSE LET c == setEntry(m.entries, Entry(move, hasRate, rate, comment))
       IN [threw |-> FALSE, moves |-> Obj(c), reqs |-> <<saveReq(i, c)>>]

\* mutant: the deletion is sent but not kept in memory
deleteMoveNotKept(m, i, move) ==
  IF ~m.defined
  THEN [threw |-> TRUE, moves |-> m, reqs |-> <<>>]
  ELSE [threw |-> FALSE, moves |-> m, reqs |-> <<saveReq(i, deleteKey(m.entries, move))>>]

\* Position.deleteMove
deleteMove(m, i, move) ==
  IF ~m.defined
  THEN [threw |-> TRUE, moves |-> m, reqs |-> <<>>]
  ELSE LET c == deleteKey(m.entries, move)
       IN [threw |-> FALSE, moves |-> Obj(c), reqs |-> <<saveReq(i, c)>>]

\* neither method is called
noCall(m) == [threw |-> FALSE, moves |-> m, reqs |-> <<>>]

----------------------------------------------------------------------------
(* Inputs the user and the store are drawn from *)

\* "main line": a run of plain text is kept as one piece
MainLine == <<"main line">>

\* squares pairs stand for the SAN of the move they would make
DropMoves == {"e4", "e5"}
\* the form's move field after trim()
FormMoves == {"", "e4", "e5"}
\* the form's rate and comment fields: left empty, or both filled in
FormNotes == {[hasRate |-> FALSE, rate |-> 0, comment |-> <<>>],
              [hasRate |-> TRUE, rate |-> 1, comment |-> MainLine]}
FormSubmitters == {"add", "play", "delete"}
\* the keys tried on a focused row: one that rates and one that does nothing
ShortcutKeys == {"P", "X"}

\* ['M', 'P', 'B'].indexOf(key.toUpperCase()) - 1
rateOfKey(key) ==
  CASE key = "M" -> 0 - 1
    [] key = "P" -> 0
    [] key = "B" -> 1
    [] OTHER -> 0 - 2

\* the record a previous session may have left for the starting position
InitialStores ==
  { <<[fen |-> <<>>, moves |-> <<Entry("e4", TRUE, 1, MainLine)>>]>> }

----------------------------------------------------------------------------
(* Event handlers of the page *)

\* the record of a step: the handler, its trigger, the Position method it
\* called with which arguments, and the session's state before it
Event(kind, via, call, move, hasRate, rate, comment, threw, played, seq) ==
  [kind |-> kind, via |-> via, call |-> call, move |-> move,
   hasRate |-> hasRate, rate |-> IF hasRate THEN rate ELSE 0, comment |-> comment,
   threw |-> threw, played |-> played, seq |-> seq,
   pre |-> moves, preId |-> id, preDisplay |-> display, reqs |-> <<>>,
   phase |-> "", data |-> NoData]

\* room for n more requests, keeping one for a pending onSnapEnd
Room(n) == issued + n + (IF snapPending THEN 1 ELSE 0) <= MaxReq

\* the requests a handler issues leave as new round trips
Send(reqs) ==
  /\ issued' = issued + Len(reqs)
  /\ net' = net \cup {[seq |-> issued + k, req |-> reqs[k], phase |-> "sent",
                        data |-> NoData] : k \in 1..Len(reqs)}

\* Position.update(): one fetch for the oracle's position, and the board is
\* set to it at once
update(g) == <<fetchReq(fen(g))>>

\* mutant: the board is left for the response to set
HandlerBoardLate(e, r, g, upd) ==
  LET reqs == r.reqs \o (IF upd THEN update(g) ELSE <<>>)
  IN /\ game' = g
     /\ moves' = r.moves
     /\ Send(reqs)
     /\ ev' = [e EXCEPT !.reqs = reqs, !.threw = r.threw]
     /\ UNCHANGED <<board, id, display, store, lastReturned, failed>>

\* a handler that ran r (addMove, deleteMove or neither), left the oracle at g
\* and called update() when upd; e describes it
Handler(e, r, g, upd) ==
  LET reqs == r.reqs \o (IF upd THEN update(g) ELSE <<>>)
  IN /\ game' = g
     /\ moves' = r.moves
     /\ Send(reqs)
     /\ board' = IF upd THEN fen(g) ELSE board
     /\ ev' = [e EXCEPT !.reqs = reqs, !.threw = r.threw]
     /\ UNCHANGED <<id, display, store, lastReturned, failed>>

thrown(m) == [threw |-> TRUE, moves |-> m, reqs |-> <<>>]

\* onDrop(source, target), source and target given by the move they make
onDrop(m) ==
  /\ ~snapPending
  /\ Room(2)
  /\ IF m \notin Legal(game)
     THEN \* 'snapback'
          /\ Handler(Event("onDrop", "snapback", "none", m, FALSE, 0, <<>>, FALSE, FALSE, 0),
                     noCall(moves), game, FALSE)
          /\ snapPending' = FALSE
     ELSE /\ Len(game) < MaxPly
          /\ IF ~moves.defined
             THEN \* `move.san in undefined` throws; the widget never snaps
                  /\ Handler(Event("onDrop", "drop", "none", m, FALSE, 0, <<>>, TRUE, TRUE, 0),
                             thrown(moves), Append(game, m), FALSE)
                  /\ snapPending' = FALSE
             ELSE IF HasKey(moves.entries, m)
             THEN /\ Handler(Event("onDrop", "drop", "none", m, FALSE, 0, <<>>,
                                   FALSE, TRUE, 0),
                             noCall(moves), Append(game, m), FALSE)
                  /\ snapPending' = TRUE
             ELSE /\ Handler(Event("onDrop", "drop", "addMove", m, FALSE, 0, <<>>,
                                   FALSE, TRUE, 0),
                             addMove(moves, id, m, FALSE, 0, <<>>), Append(game, m), FALSE)
                  /\ snapPending' = TRUE

\* onSnapEnd()
onSnapEnd ==
  /\ snapPending
  /\ Handler(Event("onSnapEnd", "", "none", "", FALSE, 0, <<>>, FALSE, FALSE, 0),
             noCall(moves), game, TRUE)
  /\ snapPending' = FALSE

\* submit handler of the addMove form
submit(move, hasRate, rate, comment, submitter) ==
  /\ Room(IF submitter = "play" THEN 2 ELSE 1)
  /\ UNCHANGED snapPending
  /\ IF move = ""
     THEN Handler(Event("submit", submitter, "none", move, hasRate, rate, comment,
                        FALSE, FALSE, 0),
                  noCall(moves), game, FALSE)
     ELSE IF submitter = "delete"
     THEN Handler(Event("submit", submitter, "deleteMove", move, FALSE, 0, <<>>,
                        FALSE, FALSE, 0),
                  deleteMove(moves, id, move), game, FALSE)
     ELSE LET r == addMove(moves, id, move, hasRate, rate, comment)
              plays == submitter = "play" /\ ~r.threw /\ move \in Legal(game)
          IN /\ plays => Len(game) < MaxPly
             /\ Handler(Event("submit", submitter, "addMove", move, hasRate, rate, comment,
                              FALSE, plays, 0),
                        r, IF plays THEN Append(game, move) ELSE game, plays)

\* mutant: update() runs before game.undo()
backClickUpdateFirst ==
  /\ Room(1)
  /\ UNCHANGED snapPending
  /\ game' = undo(game)
  /\ Send(update(game))
  /\ board' = fen(game)
  /\ ev' = [Event("undo", "", "none", "", FALSE, 0, <<>>, FALSE, FALSE, 0)
              EXCEPT !.reqs = update(game)]
  /\ UNCHANGED <<moves, id, display, store, lastReturned, failed>>

\* click handler of #back
backClick ==
  /\ Room(1)
  /\ UNCHANGED snapPending
  /\ Handler(Event("undo", "", "none", "", FALSE, 0, <<>>, FALSE, FALSE, 0),
             noCall(moves), undo(game), TRUE)

\* click handler of #flip
flipClick ==
  /\ Room(1)
  /\ UNCHANGED snapPending
  /\ Handler(Event("flip", "", "none", "", FALSE, 0, <<>>, FALSE, FALSE, 0),
             noCall(moves), game, TRUE)

\* keyup handler, ArrowLeft outside the form
keyupArrowLeft ==
  /\ Room(1)
  /\ UNCHANGED snapPending
  /\ Handler(Event("undo", "", "none", "", FALSE, 0, <<>>, FALSE, FALSE, 0),
             noCall(moves), undo(game), TRUE)

\* the labels of the rows on display, which the user can focus or click
Shown == {display[i].label : i \in DOMAIN display}

\* keyup handler on a focused move row, any key but Enter
keyupRate(moveId, key, shift) ==
  /\ Room(1)
  /\ moveId \in Shown
  /\ UNCHANGED snapPending
  /\ LET rate == rateOfKey(key)
         noData == ~moves.defined \/ ~HasKey(moves.entries, moveId)
     IN IF rate < 0 - 1
        THEN Handler(Event("keyup", key, "none", moveId, FALSE, 0, <<>>, FALSE, FALSE, 0),
                     noCall(moves), game, FALSE)
        ELSE IF noData
        THEN \* position.moves[moveId] is undefined and .comment throws
             Handler(Event("keyup", key, "none", moveId, FALSE, 0, <<>>, TRUE, FALSE, 0),
                     thrown(moves), game, FALSE)
        ELSE IF shift
        THEN \* the form is filled in
             Handler(Event("keyup", key, "none", moveId, FALSE, 0, <<>>, FALSE, FALSE, 0),
                     noCall(moves), game, FALSE)
        ELSE LET comment == Lookup(moves.entries, moveId).comment
             IN Handler(Event("keyup", key, "addMove", moveId, TRUE, rate, comment,
                              FALSE, FALSE, 0),
                        addMove(moves, id, moveId, TRUE, rate, comment), game, FALSE)

\* click handler of #moves on a move row (also reached by Enter on a focused row)
movesClick(moveId, ctrl) ==
  /\ Room(1)
  /\ moveId \in Shown
  /\ UNCHANGED snapPending
  /\ IF ctrl
     THEN LET noData == ~moves.defined \/ ~HasKey(moves.entries, moveId)
          IN Handler(Event("click", "ctrl", "none", moveId, FALSE, 0, <<>>, noData, FALSE, 0),
                     IF noData THEN thrown(moves) ELSE noCall(moves), game, FALSE)
     ELSE LET plays == moveId \in Legal(game)
          IN /\ plays => Len(game) < MaxPly
             /\ Handler(Event("click", "", "none", moveId, FALSE, 0, <<>>, FALSE, plays, 0),
                        noCall(moves), IF plays THEN Append(game, moveId) ELSE game, plays)

----------------------------------------------------------------------------
(* The annotation store and the network *)

Req(r) == r.req

StepEvent(kind, via, seq) ==
  Event(kind, via, "none", "", FALSE, 0, <<>>, FALSE, FALSE, seq)

\* the index of the record kept for position f, 0 when there is none
recordOf(f) ==
  IF \E i \in DOMAIN store : store[i].fen = f
  THEN CHOOSE i \in DOMAIN store : store[i].fen = f
  ELSE 0

\* GET /api/position/fen/{fen}: look the record up, creating it when unseen
storeFetch(r) ==
  /\ r \in net /\ r.phase = "sent" /\ Req(r).kind = "fetch"
  /\ LET known == recordOf(Req(r).fen)
         i == IF known = 0 THEN Len(store) + 1 ELSE known
         cat == IF known = 0 THEN <<>> ELSE store[known].moves
     IN /\ store' = IF known = 0
                    THEN Append(store, [fen |-> Req(r).fen, moves |-> <<>>])
                    ELSE store
        /\ lastReturned' = IF known = 0 THEN Append(lastReturned, Obj(cat))
                           ELSE [lastReturned EXCEPT ![i] = Obj(cat)]
        /\ net' = (net \ {r}) \cup
                  {[r EXCEPT !.phase = "ok", !.data = [id |-> i, moves |-> Obj(cat)]]}
  /\ UNCHANGED <<ev, game, board, id, moves, display, snapPending, issued, failed>>

\* POST /api/position/save/{id}: overwrite the record's catalog with the body
storeSave(r) ==
  /\ r \in net /\ r.phase = "sent" /\ Req(r).kind = "save"
  /\ Req(r).id \in DOMAIN store
  /\ store' = [store EXCEPT ![Req(r).id].moves = Req(r).body]
  /\ lastReturned' = [lastReturned EXCEPT ![Req(r).id] = Obj(Req(r).body)]
  /\ net' = (net \ {r}) \cup
            {[r EXCEPT !.phase = "ok",
                       !.data = [id |-> Req(r).id, moves |-> Obj(Req(r).body)]]}
  /\ UNCHANGED <<ev, game, board, id, moves, display, snapPending, issued, failed>>

\* the store answers with a non-success status; its body is JSON without the
\* record's fields (json TRUE) or no JSON at all
storeError(r, json) ==
  /\ r \in net /\ r.phase = "sent"
  /\ failed < MaxFail
  /\ net' = (net \ {r}) \cup
            {[r EXCEPT !.phase = IF json THEN "errJson" ELSE "errText"]}
  /\ failed' = failed + 1
  /\ UNCHANGED <<ev, game, board, id, moves, display, snapPending, store, issued, lastReturned>>

\* the round trip cannot complete: fetch() rejects and no handler runs
networkError(r) ==
  /\ r \in net /\ r.phase \in {"sent", "ok"}
  /\ failed < MaxFail
  /\ net' = net \ {r}
  /\ failed' = failed + 1
  /\ UNCHANGED <<ev, game, board, id, moves, display, snapPending, store, issued, lastReturned>>

\* mutant: a response is dropped unless its request is the latest one issued
appliedIfLatest(r) == r.phase \in {"ok", "errJson"} /\ r.seq = issued

\* response.json() resolves for every body that is JSON, whatever the status
\* and whatever was issued since, and the next handler then runs
applied(r) == r.phase \in {"ok", "errJson"}

\* mutant: the handlers of a save response assign the id too
responseIdAlways(r) == r.data.id

\* self.id = data.id, in the handler of update() alone
responseId(r) == IF Req(r).kind = "fetch" THEN r.data.id ELSE id

\* mutant: the handlers of a response set the board as well
responseSetsBoard(r) ==
  /\ r \in net /\ r.phase # "sent"
  /\ net' = net \ {r}
  /\ IF applied(r)
     THEN /\ id' = responseId(r)
          /\ moves' = r.data.moves
          /\ display' = IF r.data.moves.defined
                        THEN renderList(r.data.moves.entries)
                        ELSE display
     ELSE UNCHANGED <<id, moves, display>>
  /\ board' = fen(game)
  /\ ev' = [StepEvent("response", Req(r).kind, r.seq) EXCEPT
              !.threw = applied(r) /\ ~r.data.moves.defined,
              !.phase = r.phase, !.data = r.data]
  /\ UNCHANGED <<game, snapPending, store, issued, lastReturned, failed>>

\* the response of round trip r arrives: the .then() handlers of update(),
\* addMove() or deleteMove(), ending in setMoves(data.moves)
response(r) ==
  /\ r \in net /\ r.phase # "sent"
  /\ net' = net \ {r}
  /\ IF applied(r)
     THEN /\ id' = responseId(r)
          /\ moves' = r.data.moves
          \* Object.entries(undefined) throws before innerHTML is assigned
          /\ display' = IF r.data.moves.defined
                        THEN renderList(r.data.moves.entries)
                        ELSE display
     ELSE UNCHANGED <<id, moves, display>>
  /\ ev' = [StepEvent("response", Req(r).kind, r.seq) EXCEPT
              !.threw = applied(r) /\ ~r.data.moves.defined,
              !.phase = r.phase, !.data = r.data]
  /\ UNCHANGED <<game, board, snapPending, store, issued, lastReturned, failed>>

----------------------------------------------------------------------------
(* The session *)

\* after `new Position(game, board)`: the constructor has called update()
Init ==
  /\ game = <<>>
  /\ board = fen(<<>>)
  /\ id = 0
  /\ moves = Undefined
  /\ display = <<>>
  /\ snapPending = FALSE
  /\ store \in InitialStores
  /\ issued = 1
  /\ net = {[seq |-> 1, req |-> update(<<>>)[1], phase |-> "sent", data |-> NoData]}
  /\ lastReturned = [i \in DOMAIN store |-> Undefined]
  /\ failed = 0
  /\ ev = [Event("init", "", "none", "", FALSE, 0, <<>>, FALSE, FALSE, 0)
             EXCEPT !.reqs = update(<<>>)]

Next ==
  \/ \E m \in DropMoves : onDrop(m)
  \/ onSnapEnd
  \/ \E move \in FormMoves, note \in FormNotes, submitter \in FormSubmitters :
        submit(move, note.hasRate, note.rate, note.comment, submitter)
  \/ backClick
  \/ flipClick
  \/ keyupArrowLeft
  \/ \E moveId \in Shown, key \in ShortcutKeys, shift \in BOOLEAN :
        keyupRate(moveId, key, shift)
  \/ \E moveId \in Shown, ctrl \in BOOLEAN : movesClick(moveId, ctrl)
  \/ \E r \in net : storeFetch(r)
  \/ \E r \in net : storeSave(r)
  \/ \E r \in net, json \in BOOLEAN : storeError(r, json)
  \/ \E r \in net : networkError(r)
  \/ \E r \in net : response(r)

Spec == Init /\ [][Next]_vars

----------------------------------------------------------------------------
(* Rendering: the first fetch of a session whose store holds one annotated *)
(* move with an arbitrary rate and comment                                 *)

Chars == {"a", "&", "<", ">", "\"", "'", "\n"}
Special == {"&", "<", ">", "\"", "'"}

Comments == UNION {[1..k -> Chars] : k \in 0..MaxLen}

RenderRates == {0 - 5, 0 - 1, 0, 1, 5}

RenderEntries ==
  {Entry("e4", FALSE, 0, c) : c \in Comments} \cup
  {Entry("e4", TRUE, n, c) : n \in RenderRates, c \in Comments}

InitRender ==
  /\ game = <<>>
  /\ board = fen(<<>>)
  /\ id = 0
  /\ moves = Undefined
  /\ display = <<>>
  /\ snapPending = FALSE
  /\ store \in {<<[fen |-> <<>>, moves |-> <<e>>]>> : e \in RenderEntries}
  /\ issued = 1
  /\ net = {[seq |-> 1, req |-> update(<<>>)[1], phase |-> "sent", data |-> NoData]}
  /\ lastReturned = [i \in DOMAIN store |-> Undefined]
  /\ failed = 0
  /\ ev = [Event("init", "", "none", "", FALSE, 0, <<>>, FALSE, FALSE, 0)
             EXCEPT !.reqs = update(<<>>)]

NextRender ==
  \/ \E r \in net : storeFetch(r)
  \/ \E r \in net : response(r)

SpecRender == InitRender /\ [][NextRender]_vars

\* the last step was a response whose catalog setMoves has rendered
Rendered == ev.kind = "response" /\ ev.phase \in {"ok", "errJson"} /\ moves.defined

StartsWith(s, t) == Len(s) >= Len(t) /\ SubSeq(s, 1, Len(t)) = t

\* what a browser reads from a comment block: <br> as a line break, an entity
\* as its character, and a bare markup character as markup ("!")
RECURSIVE Shows(_)
Shows(b) ==
  IF b = <<>> THEN <<>>
  ELSE IF StartsWith(b, Br) THEN <<"\n">> \o Shows(SubSeq(b, 5, Len(b)))
  ELSE IF StartsWith(b, Amp) THEN <<"&">> \o Shows(SubSeq(b, 6, Len(b)))
  ELSE IF StartsWith(b, Lt) THEN <<"<">> \o Shows(SubSeq(b, 5, Len(b)))
  ELSE IF StartsWith(b, Gt) THEN <<">">> \o Shows(SubSeq(b, 5, Len(b)))
  ELSE IF StartsWith(b, Quot) THEN <<"\"">> \o Shows(SubSeq(b, 7, Len(b)))
  ELSE IF StartsWith(b, Apos) THEN <<"'">> \o Shows(SubSeq(b, 7, Len(b)))
  ELSE IF Head(b) \in Special THEN <<"!">> \o Shows(Tail(b))
  ELSE <<Head(b)>> \o Shows(Tail(b))

\* C9: the class of every rendered row is decided by the presence and the sign
\* of its entry's rate alone: best-move for a rate above 0, mistake-move below
\* 0, playable-move at 0, unrated-move without a rate.
RateClassBySign ==
  Rendered =>
    /\ Len(display) = Len(moves.entries)
    /\ \A i \in DOMAIN display :
         LET v == moves.entries[i]
         IN display[i].class =
              (IF ~v.hasRate THEN "unrated-move"
               ELSE IF v.rate > 0 THEN "best-move"
               ELSE IF v.rate < 0 THEN "mistake-move"
               ELSE "playable-move")

\* a row whose rate is 1 is on display as best-move
RateClassWitness ==
  /\ Rendered
  /\ \E i \in DOMAIN display :
       /\ moves.entries[i].hasRate /\ moves.entries[i].rate = 1
       /\ display[i].class = "best-move"

\* C10: a rendered comment block reads back as the comment itself: every one
\* of & < > " ' is an entity, every line break one <br>, nothing else is
\* markup, and an entry without a comment gives an empty block.
CommentEscaped ==
  Rendered =>
    \A i \in DOMAIN display :
      LET v == moves.entries[i]
      IN /\ Shows(display[i].comment) = (IF v.hasComment THEN v.comment ELSE <<>>)
         /\ ~v.hasComment => display[i].comment = <<>>

\* a comment with markup and a line break has been rendered
CommentEscapedWitness ==
  /\ Rendered
  /\ \E i \in DOMAIN display :
       /\ moves.entries[i].comment = <<"<", "\n", "&">>
       /\ display[i].comment = Lt \o Br \o Amp

----------------------------------------------------------------------------
(* Properties of the session *)

\* the save requests the last handler issued
Saves == SelectSeq(ev.reqs, LAMBDA q : q.kind = "save")

\* the last step was a handler that ran addMove or deleteMove on a catalog
Edited(call) == ev.call = call /\ ev.pre.defined

Without(cat, move) == SelectSeq(cat, LAMBDA e : e.key # move)

\* C1: whenever no round trip is outstanding and none has failed, the catalog
\* in memory is the catalog of the last response the store returned for the
\* record Position.id names.
InMemoryIsLastReturned ==
  (net = {} /\ failed = 0) =>
     /\ id \in DOMAIN lastReturned
     /\ moves = lastReturned[id]

\* C2: every response whose body is the record is applied when it arrives,
\* whatever has been issued or applied since its request left: the catalog in
\* memory becomes the catalog it carries, and a fetch response sets the id.
ResponseAppliedOnArrival ==
  (ev.kind = "response" /\ ev.phase = "ok") =>
     /\ moves = ev.data.moves
     /\ ev.via = "fetch" => id = ev.data.id

\* a fetch issued before an edit has arrived after the edit's save response:
\* memory held the store's catalog and now holds the older one again
StaleFetchOverwrites ==
  /\ ev.kind = "response" /\ ev.via = "fetch" /\ ev.phase = "ok"
  /\ ev.seq < issued
  /\ net = {} /\ failed = 0
  /\ id \in DOMAIN store /\ id = ev.preId
  /\ ev.pre = Obj(store[id].moves)
  /\ moves # ev.pre

\* C3: addMove and deleteMove on a catalog issue exactly one save, addressed
\* to Position.id as it was at the call, whose body is the whole catalog as
\* the mutation left it: every other entry in place, with the entry set or
\* without the entry deleted.
SaveCarriesWholeCatalog ==
  /\ Edited("addMove") =>
       /\ ~ev.threw
       /\ Len(Saves) = 1
       /\ Saves[1].id = ev.preId
       /\ Saves[1].body = moves.entries
       /\ Without(Saves[1].body, ev.move) = Without(ev.pre.entries, ev.move)
       /\ Len(SelectSeq(Saves[1].body, LAMBDA e : e.key = ev.move)) = 1
       /\ Lookup(Saves[1].body, ev.move) = Entry(ev.move, ev.hasRate, ev.rate, ev.comment)
       /\ HasKey(ev.pre.entries, ev.move) =>
            IndexOf(Saves[1].body, ev.move) = IndexOf(ev.pre.entries, ev.move)
  /\ Edited("deleteMove") =>
       /\ ~ev.threw
       /\ Len(Saves) = 1
       /\ Saves[1].id = ev.preId
       /\ Saves[1].body = moves.entries
       /\ Saves[1].body = Without(ev.pre.entries, ev.move)

\* with {id: 1, moves: {}} in memory, addMove("e4", 1, "main line") has sent
\* {e4: {rate: 1, comment: "main line"}} to record 1
SaveExampleSent ==
  /\ Edited("addMove")
  /\ ev.preId = 1 /\ ev.pre = Obj(<<>>)
  /\ ev.move = "e4" /\ ev.hasRate /\ ev.rate = 1 /\ ev.comment = MainLine
  /\ Saves = <<saveReq(1, <<[key |-> "e4", hasRate |-> TRUE, rate |-> 1,
                            hasComment |-> TRUE, comment |-> MainLine]>>)>>

\* C4: every move that addMove puts into a catalog is legal at the position
\* of the record the save is addressed to.
AddedMoveIsLegalThere ==
  (Edited("addMove") /\ ev.preId \in DOMAIN store) =>
     ev.move \in Legal(store[ev.preId].fen)

\* C5: a handler that plays a move which is a key of the catalog in memory
\* calls no addMove, issues no save and leaves the move's entry as it was.
KnownMovePlayedUntouched ==
  (ev.played /\ ev.pre.defined /\ HasKey(ev.pre.entries, ev.move)) =>
     /\ ev.call = "none"
     /\ Saves = <<>>
     /\ moves = ev.pre

\* C6: the arrival of a response with a non-success status changes neither
\* Position.id nor the catalog in memory nor the list on display.
FailureChangesNothing ==
  (ev.kind = "response" /\ ev.phase \in {"errJson", "errText"}) =>
     /\ id = ev.preId
     /\ moves = ev.pre
     /\ display = ev.preDisplay

\* C7: addMove on a catalog that already holds the entry the same arguments
\* produce leaves the catalog as it was, keys, order and fields, and its save
\* body is that catalog again.
AddMoveIdempotent ==
  (Edited("addMove") /\ HasKey(ev.pre.entries, ev.move)
     /\ Lookup(ev.pre.entries, ev.move) = Entry(ev.move, ev.hasRate, ev.rate, ev.comment)) =>
     /\ moves = ev.pre
     /\ Len(Saves) = 1
     /\ Saves[1].body = ev.pre.entries

\* addMove has run twice with the same arguments and no response between: the
\* store has never seen e5, and two saves with the same body are on their way
AddMoveTwice ==
  /\ Edited("addMove") /\ ev.move = "e5"
  /\ HasKey(ev.pre.entries, "e5")
  /\ Lookup(ev.pre.entries, "e5") = Entry("e5", ev.hasRate, ev.rate, ev.comment)
  /\ \A i \in DOMAIN store : ~HasKey(store[i].moves, "e5")
  /\ Cardinality({r \in net : /\ r.phase = "sent" /\ r.req.kind = "save"
                              /\ r.req.body = moves.entries}) = 2

\* C8: deleteMove of a move that is no key of the catalog in memory throws
\* nothing, leaves the catalog as it was and issues one save with that catalog.
DeleteAbsentIsNoOpSave ==
  (Edited("deleteMove") /\ ~HasKey(ev.pre.entries, ev.move)) =>
     /\ ~ev.threw
     /\ moves = ev.pre
     /\ Len(Saves) = 1
     /\ Saves[1].id = ev.preId
     /\ Saves[1].body = ev.pre.entries

\* an absent move has been deleted from a catalog that holds another one
DeleteAbsentWitness ==
  /\ Edited("deleteMove") /\ ~HasKey(ev.pre.entries, ev.move)
  /\ ev.pre.entries # <<>>
  /\ Len(Saves) = 1 /\ Saves[1].body = ev.pre.entries

\* C11: a save response makes the catalog in memory and the list on display
\* the catalog it carries and leaves Position.id alone; no step but a fetch
\* response changes Position.id, and a fetch response sets id and catalog
\* from the same body.
SaveResponseReplacesCatalog ==
  /\ (ev.kind = "response" /\ ev.via = "save" /\ ev.phase = "ok") =>
       /\ moves = ev.data.moves
       /\ Len(display) = Len(ev.data.moves.entries)
       /\ \A i \in DOMAIN display :
            /\ display[i].label = ev.data.moves.entries[i].key
            /\ display[i].class = moveClass(ev.data.moves.entries[i])
            /\ display[i].comment = commentBlock(ev.data.moves.entries[i])
  /\ (ev.kind # "response" \/ ev.via # "fetch") => id = ev.preId
  /\ (ev.kind = "response" /\ ev.via = "fetch" /\ ev.phase = "ok") =>
       /\ id = ev.data.id
       /\ moves = ev.data.moves

\* a save response has replaced a catalog that held a later edit, whose own
\* save is still on its way, and has left an id that names another record
SaveResponseDiscardsEdit ==
  /\ ev.kind = "response" /\ ev.via = "save" /\ ev.phase = "ok"
  /\ ev.pre.defined /\ moves # ev.pre
  /\ display = renderList(moves.entries)
  /\ \E r \in net : /\ r.req.kind = "save" /\ r.seq > ev.seq
                    /\ r.req.body = ev.pre.entries

\* C13: after addMove the entry of the move holds a rate exactly when one was
\* given, 0 included, and a comment exactly when a non-empty one was given;
\* nothing else, and nothing of the entry the move had before.
AddMoveEntryFields ==
  Edited("addMove") =>
     /\ HasKey(moves.entries, ev.move)
     /\ LET v == Lookup(moves.entries, ev.move)
        IN /\ v.hasRate = ev.hasRate
           /\ v.rate = (IF ev.hasRate THEN ev.rate ELSE 0)
           /\ v.hasComment = (ev.comment # <<>>)
           /\ v.comment = ev.comment

\* a rated and commented move has been set again without rate or comment and
\* its entry is now empty
AddMoveDropsOldFields ==
  /\ Edited("addMove")
  /\ ~ev.hasRate /\ ev.comment = <<>>
  /\ HasKey(ev.pre.entries, ev.move)
  /\ Lookup(ev.pre.entries, ev.move).hasRate
  /\ Lookup(ev.pre.entries, ev.move).hasComment
  /\ ~Lookup(moves.entries, ev.move).hasRate
  /\ ~Lookup(moves.entries, ev.move).hasComment

\* C16: what setMoves leaves on display is one row per entry of the catalog
\* it was given, labelled with the entry's key, in the catalog's order, and
\* no row of the list shown before.
OneRowPerEntry ==
  Rendered =>
     /\ Len(display) = Len(moves.entries)
     /\ \A i \in DOMAIN display : display[i].label = moves.entries[i].key

\* a list of two rows has replaced a list that showed another row first
ListReplaced ==
  /\ Rendered
  /\ Len(display) = 2
  /\ ev.preDisplay # <<>>
  /\ ev.preDisplay[1].class # display[1].class

\* C17: every save carries an id the store assigned: the saves on their way
\* do, and so does the one an edit would send now, which it sends exactly
\* when a catalog is in memory.
SaveCarriesStoreId ==
  /\ \A r \in net : r.req.kind = "save" => r.req.id \in DOMAIN store
  /\ moves.defined => id \in DOMAIN store

\* the round trips a step has issued
Issued == {r \in net' : r.seq > issued}

\* C12: the step that issues a fetch sets the board to the oracle's position,
\* the one the fetch asks for, and no other step sets the board: neither the
\* store's answer, nor a failure, nor the arrival of a response.
BoardSetWithFetch ==
  [][LET fetches == {r \in Issued : r.req.kind = "fetch"}
     IN /\ fetches # {} =>
             /\ board' = fen(game')
             /\ \A r \in fetches : r.req.fen = board'
        /\ fetches = {} => board' = board]_vars

\* a move was played, update() set the board to the new position, and its
\* fetch has failed since
BoardShownAfterFailedFetch ==
  /\ ev.played
  /\ game = <<"e4">> /\ board = fen(game)
  /\ ev.reqs # <<>> /\ ev.reqs[Len(ev.reqs)].kind = "fetch"
  /\ \A r \in net : r.seq # issued
  /\ failed > 0

Edits == {"addMove", "deleteMove"}

\* C14: a handler that only calls addMove or deleteMove, and the arrival of a
\* save response, leave the oracle's history, the board and Position.id as
\* they were.
EditsLeaveOracleBoardId ==
  [][(\/ /\ ev'.kind \in {"submit", "keyup"} /\ ev'.via # "play"
         /\ ev'.call \in Edits
      \/ /\ ev'.kind = "response" /\ ev'.via = "save")
     => UNCHANGED <<game, board, id>>]_vars

\* the response of a save of another record has arrived after a move was
\* played, and Position.id still names the position on the board
SaveResponseKeepsId ==
  /\ ev.kind = "response" /\ ev.via = "save" /\ ev.phase = "ok"
  /\ game # <<>> /\ board = fen(game)
  /\ id = ev.preId /\ id # 0
  /\ ev.data.id # id

\* C15: the step of an undo pops the oracle's last move and issues one
\* request, a fetch for the position that results; it sends no save and
\* changes neither the catalog in memory nor the store.
UndoPopsThenFetches ==
  [][(ev'.kind = "undo" /\ issued' # issued) =>
       /\ game' = (IF game = <<>> THEN game ELSE SubSeq(game, 1, Len(game) - 1))
       /\ issued' = issued + 1
       /\ \A r \in Issued : r.req.kind = "fetch" /\ r.req.fen = fen(game')
       /\ moves' = moves
       /\ store' = store]_vars

\* an undo right after the fetch for the position behind e4: the oracle is
\* back at the start and the undo's fetch asks for the start
UndoFromPlayedMove ==
  /\ ev.kind = "undo"
  /\ game = <<>>
  /\ ev.reqs = <<fetchReq(fen(<<>>))>>
  /\ \E r \in net : /\ r.seq = issued - 1 /\ r.req.kind = "fetch"
                    /\ r.req.fen = fen(<<"e4">>)

\* the body b shows the edit that event e made
Reflects(b, e) ==
  IF e.call = "addMove"
  THEN /\ HasKey(b, e.move)
       /\ Lookup(b, e.move).hasRate = e.hasRate
       /\ Lookup(b, e.move).rate = e.rate
       /\ Lookup(b, e.move).comment = e.comment
  ELSE ~HasKey(b, e.move)

\* C18: when an edit directly follows an edit of another move, no response
\* applied between them, the body of the second save shows both edits and,
\* for every other move, what the first save's body held.
EditsAccumulate ==
  [][(/\ ev.call \in Edits /\ ev.pre.defined
      /\ ev'.call \in Edits /\ issued' # issued
      /\ ev'.move # ev.move)
     => \A r \in Issued : r.req.kind = "save" =>
          /\ Reflects(r.req.body, ev)
          /\ Reflects(r.req.body, ev')
          /\ Without(Without(r.req.body, ev.move), ev'.move)
               = Without(Without(Saves[1].body, ev.move), ev'.move)]_vars

\* e4 was deleted and e5 added before the store has seen either save: the
\* second body holds e5 alone
TwoEditsInSecondBody ==
  /\ Edited("addMove") /\ ev.move = "e5"
  /\ Keys(Saves[1].body) = {"e5"}
  /\ HasKey(store[1].moves, "e4")
  /\ \E r \in net : /\ r.seq = issued - 1 /\ r.phase = "sent"
                    /\ r.req.kind = "save" /\ r.req.body = <<>>

-----------------------------------------------------------------------------
(* The session when every round trip resolves: the store answers each request
   it holds and each answer reaches the page. The user's events get no
   fairness: they may stop at any point. *)

NextResolving ==
  \/ \E m \in DropMoves : onDrop(m)
  \/ onSnapEnd
  \/ \E move \in FormMoves, note \in FormNotes, submitter \in FormSubmitters :
        submit(move, note.hasRate, note.rate, note.comment, submitter)
  \/ backClick
  \/ flipClick
  \/ keyupArrowLeft
  \/ \E moveId \in Shown, key \in ShortcutKeys, shift \in BOOLEAN :
        keyupRate(moveId, key, shift)
  \/ \E moveId \in Shown, ctrl \in BOOLEAN : movesClick(moveId, ctrl)
  \/ \E r \in net : storeFetch(r)
  \/ \E r \in net : storeSave(r)
  \/ \E r \in net : response(r)

SpecResolving ==
  /\ Init /\ [][NextResolving]_vars
  /\ WF_vars(\E r \in net : storeFetch(r))
  /\ WF_vars(\E r \in net : storeSave(r))
  /\ WF_vars(\E r \in net : response(r))

\* the list on display is a rendering of the catalog in memory
InSync == moves.defined /\ display = renderList(moves.entries)

\* C19: when every round trip resolves, the session comes to show the catalog it
\* holds and stays so, whatever the order of the responses.
SettlesInSync == <>[]InSync

\* all round trips are over, none failed, and the last save response changed
\* the list on display to the catalog now in memory
SettledAfterSave ==
  /\ net = {} /\ failed = 0
  /\ ev.kind = "response" /\ ev.via = "save"
  /\ ev.preDisplay # display
  /\ InSync

\* C20: the arrival of a failed save leaves the catalog in memory, edits
\* included, as it was, ready for the next save to carry.
FailedSaveKeepsEdit ==
  (/\ ev.kind = "response" /\ ev.via = "save"
   /\ ev.phase \in {"errJson", "errText"}
   /\ ev.pre.defined)
  => /\ moves = ev.pre
     /\ display = ev.preDisplay

====
